---------------------------- MODULE Spec2Model ----------------------------
(***************************************************************************)
(* A model of src/check_links.py: the text normaliser                      *)
(* (clean_text_for_search), the context extractor (extract_context) and    *)
(* the staged lookup of check_text_on_page (exact search, cleaned          *)
(* substring search, gapped word-sequence search, at two normalisation     *)
(* levels), and the row loop of process_excel_file with its counters.      *)
(*                                                                         *)
(* Python strings are modelled as sequences of one-character strings,      *)
(* Python's 0-based offsets are kept as such (a slice text[p:q] is         *)
(* Slice(text, p, q)), None is the string "None" for scalars and the       *)
(* record NoContext for the context dictionary.                            *)
(***************************************************************************)
EXTENDS Integers, Sequences, FiniteSets, TLC

VARIABLES
    pc,                  \* position in the function under execution
    call,                \* arguments of the function under execution
    ret,                 \* value returned by a pure function (or "None")
    page_text,           \* check_text_on_page: text of the fetched page
    text_found,          \* check_text_on_page: first element of the result
    error,               \* check_text_on_page: error message or "None"
    match_type,          \* check_text_on_page: 'exact', 'fuzzy' or "None"
    context,             \* check_text_on_page: context dict or NoContext
    cleaned_search_text, \* cleaned needle of the level in progress
    cleaned_page_text,   \* cleaned page of the level in progress
    level,               \* normalisation level in progress (0 = raw)
    search_words_list,   \* sequence matcher: needle tokens
    page_words_list,     \* sequence matcher: haystack tokens
    found_sequence,      \* sequence matcher: words matched so far
    search_idx,          \* sequence matcher: needle cursor
    page_idx,            \* sequence matcher: haystack cursor
    sequence_start_pos,  \* sequence matcher: haystack index of first match
    sequence_end_pos,    \* sequence matcher: haystack index of last match
    words_skipped,       \* sequence matcher: consecutive unmatched words
    max_gap,             \* sequence matcher: MAX_WORDS_BETWEEN in force
    pc_excel,            \* process_excel_file: position in the function
    sheets_dict,         \* process_excel_file: the sheets read, in order
    sheet_name,          \* process_excel_file: number of the sheet in progress
    row_text,            \* process_excel_file: text, the row's text cell
    row_link,            \* process_excel_file: link, the row's link cell
    idx,                 \* process_excel_file: number of the row in progress
    total_rows,          \* process_excel_file: len(df) of the sheet
    found_count,         \* process_excel_file: rows found, this sheet
    not_found_count,     \* process_excel_file: rows not found, this sheet
    error_count,         \* process_excel_file: rows in error, this sheet
    total_rows_all,      \* process_excel_file: total_rows of the sheets done
    found_count_all,     \* process_excel_file: found_count of the sheets done
    not_found_count_all, \* process_excel_file: the same for not_found_count
    error_count_all,     \* process_excel_file: the same for error_count
    found_matches        \* process_excel_file: (link, text) of the rows found

vars == <<pc, call, ret, page_text, text_found, error, match_type, context,
          cleaned_search_text, cleaned_page_text, level, search_words_list,
          page_words_list, found_sequence, search_idx, page_idx,
          sequence_start_pos, sequence_end_pos, words_skipped, max_gap,
          pc_excel, sheets_dict, sheet_name, row_text, row_link, idx,
          total_rows, found_count, not_found_count, error_count,
          total_rows_all, found_count_all, not_found_count_all,
          error_count_all, found_matches>>

lookupVars == <<page_text, text_found, error, match_type, context,
                cleaned_search_text, cleaned_page_text, level>>

matcherVars == <<search_words_list, page_words_list, found_sequence,
                 search_idx, page_idx, sequence_start_pos, sequence_end_pos,
                 words_skipped, max_gap>>

sheetCounters == <<total_rows, found_count, not_found_count, error_count>>

allCounters == <<total_rows_all, found_count_all, not_found_count_all,
                 error_count_all>>

sheetVars == <<pc_excel, sheets_dict, sheet_name, row_text, row_link, idx,
               total_rows, found_count, not_found_count, error_count,
               total_rows_all, found_count_all, not_found_count_all,
               error_count_all, found_matches>>

\* process_excel_file's variables, when the function is not in progress
NoWorkbook ==
    /\ pc_excel = "None"
    /\ sheets_dict = <<>>
    /\ sheet_name = 0
    /\ row_text = "None"
    /\ row_link = "None"
    /\ idx = 0
    /\ total_rows = 0
    /\ found_count = 0
    /\ not_found_count = 0
    /\ error_count = 0
    /\ total_rows_all = 0
    /\ found_count_all = 0
    /\ not_found_count_all = 0
    /\ error_count_all = 0
    /\ found_matches = <<>>

-----------------------------------------------------------------------------
(* Program constants (src/check_links.py, lines 25-49).  MIN_MATCH_RATIO   *)
(* is 0.7, kept as the fraction MinMatchRatioNum / MinMatchRatioDen.       *)

MIN_FUZZY_TEXT_LENGTH == 3
MinMatchRatioNum == 7
MinMatchRatioDen == 10
MIN_WORDS_IN_SEQUENCE == 3
MAX_WORDS_BETWEEN == 1
CONTEXT_WORDS_BEFORE == 20
CONTEXT_WORDS_AFTER == 20

NoContext == [none |-> TRUE]

-----------------------------------------------------------------------------
(* Characters and Python string primitives.                                *)

LowerCase == <<"a","b","c","d","e","f","g","h","i","j","k","l","m",
               "n","o","p","q","r","s","t","u","v","w","x","y","z">>
UpperCase == <<"A","B","C","D","E","F","G","H","I","J","K","L","M",
               "N","O","P","Q","R","S","T","U","V","W","X","Y","Z">>
Letters == {LowerCase[i] : i \in 1..26} \cup {UpperCase[i] : i \in 1..26}
Digits == {"0","1","2","3","4","5","6","7","8","9"}
Whitespace == {" ", "\t", "\n"}

\* str.isspace() of one character; regex class \s
IsSpace(c) == c \in Whitespace
\* regex class \d
IsDigit(c) == c \in Digits
\* regex class \w: letters, digits and the underscore
IsWordChar(c) == c \in Letters \/ c \in Digits \/ c = "_"

\* str.lower() of one character
LowerChar(c) ==
    IF \E i \in 1..26 : UpperCase[i] = c
    THEN LowerCase[CHOOSE i \in 1..26 : UpperCase[i] = c]
    ELSE c

\* str.lower()
Lower(s) == [i \in 1..Len(s) |-> LowerChar(s[i])]

Min(a, b) == IF a < b THEN a ELSE b
Max(a, b) == IF a > b THEN a ELSE b

\* Python slice s[p:q] for 0 <= p, with q clipped to len(s)
Slice(s, p, q) == SubSeq(s, p + 1, Min(q, Len(s)))

\* s.startswith(p)
StartsWith(s, p) == Len(p) <= Len(s) /\ SubSeq(s, 1, Len(p)) = p
\* s.endswith(p)
EndsWith(s, p) ==
    Len(p) <= Len(s) /\ SubSeq(s, Len(s) - Len(p) + 1, Len(s)) = p

\* p occurs in s at 1-based index i
OccursAt(s, p, i) ==
    i + Len(p) - 1 <= Len(s) /\ SubSeq(s, i, i + Len(p) - 1) = p

\* s.find(p): 0-based offset of the first occurrence of p in s, or -1
Find(s, p) ==
    IF \E i \in 1..(Len(s) + 1) : OccursAt(s, p, i)
    THEN (CHOOSE i \in 1..(Len(s) + 1) :
             /\ OccursAt(s, p, i)
             /\ \A j \in 1..(i - 1) : ~OccursAt(s, p, j)) - 1
    ELSE -1

RECURSIVE LStrip(_)
LStrip(s) == IF s # <<>> /\ IsSpace(Head(s)) THEN LStrip(Tail(s)) ELSE s

RECURSIVE RStrip(_)
RStrip(s) ==
    IF s # <<>> /\ IsSpace(s[Len(s)])
    THEN RStrip(SubSeq(s, 1, Len(s) - 1))
    ELSE s

\* str.strip()
Strip(s) == RStrip(LStrip(s))

\* the maximal run of non-whitespace characters of s starting at index i
RECURSIVE WordEnd(_, _)
WordEnd(s, i) ==
    IF i <= Len(s) /\ ~IsSpace(s[i]) THEN WordEnd(s, i + 1) ELSE i

\* str.split(): the whitespace-delimited words of s, in order
RECURSIVE SplitFrom(_, _)
SplitFrom(s, i) ==
    IF i > Len(s) THEN <<>>
    ELSE IF IsSpace(s[i]) THEN SplitFrom(s, i + 1)
    ELSE LET e == WordEnd(s, i)
         IN  <<SubSeq(s, i, e - 1)>> \o SplitFrom(s, e)

Split(s) == SplitFrom(s, 1)

\* ' '.join(words)
RECURSIVE Join(_)
Join(words) ==
    IF words = <<>> THEN <<>>
    ELSE IF Len(words) = 1 THEN words[1]
    ELSE words[1] \o <<" ">> \o Join(Tail(words))

-----------------------------------------------------------------------------
(* clean_text_for_search (lines 97-160).                                   *)

\* first index >= i of s that holds no digit
RECURSIVE SkipDigits(_, _)
SkipDigits(s, i) ==
    IF i <= Len(s) /\ IsDigit(s[i]) THEN SkipDigits(s, i + 1) ELSE i

\* index of the first occurrence of character c in s at or after i, 0 if none
RECURSIVE FindChar(_, _, _)
FindChar(s, c, i) ==
    IF i > Len(s) THEN 0
    ELSE IF s[i] = c THEN i
    ELSE FindChar(s, c, i + 1)

\* A match of \[(?:id|club)\d+\|([^\]]+)\] starting at index i of s:
\* <<first index of the label, index of the closing bracket>>, <<0, 0>> if
\* the pattern does not match there.
PlaceholderAt(s, i) ==
    IF i > Len(s) \/ s[i] # "[" THEN <<0, 0>>
    ELSE LET j == IF OccursAt(s, <<"i", "d">>, i + 1) THEN i + 3
                  ELSE IF OccursAt(s, <<"c", "l", "u", "b">>, i + 1) THEN i + 5
                  ELSE 0
         IN  IF j = 0 THEN <<0, 0>>
             ELSE LET k == SkipDigits(s, j)
                  IN  IF k = j \/ k > Len(s) \/ s[k] # "|" THEN <<0, 0>>
                      ELSE LET e == FindChar(s, "]", k + 1)
                           IN  IF e = 0 \/ e = k + 1 THEN <<0, 0>>
                               ELSE <<k + 1, e>>

\* Step 1: re.sub(r'\[(?:id|club)\d+\|([^\]]+)\]', r'\1', text)
RECURSIVE ReplacePlaceholdersFrom(_, _)
ReplacePlaceholdersFrom(s, i) ==
    IF i > Len(s) THEN <<>>
    ELSE LET m == PlaceholderAt(s, i)
         IN  IF m[1] # 0
             THEN SubSeq(s, m[1], m[2] - 1) \o ReplacePlaceholdersFrom(s, m[2] + 1)
             ELSE <<s[i]>> \o ReplacePlaceholdersFrom(s, i + 1)

ReplacePlaceholders(s) == ReplacePlaceholdersFrom(s, 1)

\* Step 2: re.sub(r'\[[^\]]*\]', ' ', cleaned)
RECURSIVE RemoveBracketsFrom(_, _)
RemoveBracketsFrom(s, i) ==
    IF i > Len(s) THEN <<>>
    ELSE LET e == IF s[i] = "[" THEN FindChar(s, "]", i + 1) ELSE 0
         IN  IF e # 0
             THEN <<" ">> \o RemoveBracketsFrom(s, e + 1)
             ELSE <<s[i]>> \o RemoveBracketsFrom(s, i + 1)

RemoveBrackets(s) == RemoveBracketsFrom(s, 1)

\* Step 3 as it would be with the replacement r' \1 ': the special character
\* is kept and set off by spaces
RECURSIVE PadSpecialsFrom(_, _)
PadSpecialsFrom(s, i) ==
    IF i > Len(s) THEN <<>>
    ELSE IF IsWordChar(s[i]) \/ IsSpace(s[i])
         THEN <<s[i]>> \o PadSpecialsFrom(s, i + 1)
         ELSE <<" ", s[i], " ">> \o PadSpecialsFrom(s, i + 1)

PadSpecials(s) == PadSpecialsFrom(s, 1)

\* Step 3: re.sub(r'[^\w\s]', ' ', cleaned)
ReplaceSpecials(s) ==
    [i \in 1..Len(s) |-> IF IsWordChar(s[i]) \/ IsSpace(s[i]) THEN s[i] ELSE " "]

\* re.search(r'\d', word)
HasDigit(word) == \E i \in 1..Len(word) : IsDigit(word[i])

\* re.sub(r'\d+', ' ', cleaned): every maximal run of digits becomes a space
RECURSIVE ReplaceDigitRunsFrom(_, _)
ReplaceDigitRunsFrom(s, i) ==
    IF i > Len(s) THEN <<>>
    ELSE IF IsDigit(s[i])
         THEN <<" ">> \o ReplaceDigitRunsFrom(s, SkipDigits(s, i))
         ELSE <<s[i]>> \o ReplaceDigitRunsFrom(s, i + 1)

ReplaceDigitRuns(s) == ReplaceDigitRunsFrom(s, 1)

\* lines 146-147: the word starts or ends a word that had digits
IsFragment(word, words_with_digits) ==
    \E orig_word \in words_with_digits :
        StartsWith(orig_word, word) \/ EndsWith(orig_word, word)

\* Lines 140-154 as they would be were the short fragments of words with
\* digits kept
KeepFragments(words_after, words_with_digits) == words_after

\* lines 140-154: the words that are not short fragments of a digit word
RECURSIVE FilterFragments(_, _)
FilterFragments(words_after, words_with_digits) ==
    IF words_after = <<>> THEN <<>>
    ELSE LET word == Head(words_after)
             rest == FilterFragments(Tail(words_after), words_with_digits)
         IN  IF IsFragment(word, words_with_digits) /\ Len(word) <= 2
             THEN rest
             ELSE <<word>> \o rest

\* the set words_with_digits of lines 129-133
WordsWithDigits(words) ==
    {words[i] : i \in {k \in 1..Len(words) : HasDigit(words[k])}}

\* Step 4 (lines 127-154), taken when remove_digits is true
StripDigits(s) ==
    LET words == Split(s)
        words_after == Split(ReplaceDigitRuns(s))
    IN  Join(FilterFragments(words_after, WordsWithDigits(words)))

\* first index >= i of s that holds no whitespace
RECURSIVE WordStart(_, _)
WordStart(s, i) ==
    IF i <= Len(s) /\ IsSpace(s[i]) THEN WordStart(s, i + 1) ELSE i

\* Step 5: re.sub(r'\s+', ' ', cleaned): every run of whitespace becomes ' '
RECURSIVE CollapseFrom(_, _)
CollapseFrom(s, i) ==
    IF i > Len(s) THEN <<>>
    ELSE IF IsSpace(s[i])
         THEN <<" ">> \o CollapseFrom(s, WordStart(s, i))
         ELSE <<s[i]>> \o CollapseFrom(s, i + 1)

\* Step 5 as it would be with cleaned.replace('  ', ' '): every pair of
\* whitespace characters becomes one space, once
RECURSIVE CollapsePairsFrom(_, _)
CollapsePairsFrom(s, i) ==
    IF i > Len(s) THEN <<>>
    ELSE IF IsSpace(s[i]) /\ i < Len(s) /\ IsSpace(s[i + 1])
         THEN <<" ">> \o CollapsePairsFrom(s, i + 2)
         ELSE <<s[i]>> \o CollapsePairsFrom(s, i + 1)

CollapsePairs(s) == Strip(CollapsePairsFrom(s, 1))

CollapseWhitespace(s) == Strip(CollapseFrom(s, 1))

clean_text_for_search(text, remove_digits) ==
    IF text = <<>> THEN <<>>
    ELSE LET step3 == ReplaceSpecials(RemoveBrackets(ReplacePlaceholders(text)))
             step4 == IF remove_digits THEN StripDigits(step3) ELSE step3
         IN  CollapseWhitespace(step4)

-----------------------------------------------------------------------------
(* extract_context (lines 193-229).  Offsets are 0-based as in the source: *)
(* the character text[k] of the source is text[k + 1] here.                *)

\* lines 211-216: the backward walk from position
RECURSIVE ContextStart(_, _, _, _)
ContextStart(text, start, words_count, words_before) ==
    IF start > 0 /\ words_count < words_before
    THEN LET s1 == start - 1
             crossed == /\ s1 > 0
                        /\ IsSpace(text[s1 + 1])
                        /\ ~IsSpace(text[s1])
         IN  ContextStart(text, s1,
                          IF crossed THEN words_count + 1 ELSE words_count,
                          words_before)
    ELSE start

\* lines 219-224: the forward walk from position + match_length
RECURSIVE ContextEnd(_, _, _, _)
ContextEnd(text, end, words_count, words_after) ==
    IF end < Len(text) /\ words_count < words_after
    THEN LET crossed == /\ end < Len(text) - 1
                        /\ IsSpace(text[end + 1])
                        /\ ~IsSpace(text[end + 2])
         IN  ContextEnd(text, end + 1,
                        IF crossed THEN words_count + 1 ELSE words_count,
                        words_after)
    ELSE end

\* The found text as it would be were the slice cleaned before it is returned
FoundTextCleaned(text, position, match_length) ==
    clean_text_for_search(Slice(text, position, position + match_length), FALSE)

\* line 208 and line 229: the found text, trimmed
FoundText(text, position, match_length) ==
    Strip(Slice(text, position, position + match_length))

extract_context(text, position, match_length, words_before, words_after) ==
    LET start == ContextStart(text, position, 0, words_before)
        end == ContextEnd(text, position + match_length, 0, words_after)
    IN  [before |-> Strip(Slice(text, start, position)),
         found  |-> FoundText(text, position, match_length),
         after  |-> Strip(Slice(text, position + match_length, end))]

-----------------------------------------------------------------------------
(* The gapped word-sequence matcher of check_text_on_page (lines 392-419   *)
(* at level 1, lines 506-530 at level 2).  Cursors are 0-based.            *)

\* lines 392-397 / 506-511: the matcher's locals before the loop
MatcherStart ==
    [found_sequence     |-> <<>>,
     search_idx         |-> 0,
     page_idx           |-> 0,
     sequence_start_pos |-> -1,
     sequence_end_pos   |-> -1,
     words_skipped      |-> 0]

\* line 399 / 513: the loop condition
MatcherRunning(st, needle, hay) ==
    st.search_idx < Len(needle) /\ st.page_idx < Len(hay)

\* Lines 415-419 as they would be were the words matched so far kept
MatcherRestartKeepsWords(st) ==
    [st EXCEPT !.search_idx = 0,
               !.words_skipped = 0]

\* Lines 415-419 as they would be were the needle cursor left where it is
MatcherRestartKeepsCursor(st) ==
    [st EXCEPT !.found_sequence = <<>>,
               !.sequence_start_pos = -1,
               !.words_skipped = 0]

\* Lines 415-419 as they would be were the word that overflowed the gap
\* tried again as the start of a new match: the haystack cursor steps back
MatcherRestartRewinds(st) ==
    [st EXCEPT !.search_idx = 0,
               !.found_sequence = <<>>,
               !.sequence_start_pos = -1,
               !.words_skipped = 0,
               !.page_idx = st.page_idx - 1]

\* lines 415-419 / 526-530: the restart once too many words were skipped
MatcherRestart(st) ==
    [st EXCEPT !.search_idx = 0,
               !.found_sequence = <<>>,
               !.sequence_start_pos = -1,
               !.words_skipped = 0]

\* Lines 400-419 as they would be were no unmatched word tolerated: every
\* mismatch restarts the match
MatcherStepNoGap(st, needle, hay, gap) ==
    IF needle[st.search_idx + 1] = hay[st.page_idx + 1]
    THEN [found_sequence     |-> Append(st.found_sequence,
                                        needle[st.search_idx + 1]),
          search_idx         |-> st.search_idx + 1,
          page_idx           |-> st.page_idx + 1,
          sequence_start_pos |-> IF st.sequence_start_pos = -1
                                 THEN st.page_idx
                                 ELSE st.sequence_start_pos,
          sequence_end_pos   |-> st.page_idx,
          words_skipped      |-> 0]
    ELSE MatcherRestart([st EXCEPT !.page_idx = st.page_idx + 1])

\* Lines 400-419 as they would be without the restart of lines 415-419: any
\* number of unmatched words is skipped
MatcherStepAnyGap(st, needle, hay, gap) ==
    IF needle[st.search_idx + 1] = hay[st.page_idx + 1]
    THEN [found_sequence     |-> Append(st.found_sequence,
                                        needle[st.search_idx + 1]),
          search_idx         |-> st.search_idx + 1,
          page_idx           |-> st.page_idx + 1,
          sequence_start_pos |-> IF st.sequence_start_pos = -1
                                 THEN st.page_idx
                                 ELSE st.sequence_start_pos,
          sequence_end_pos   |-> st.page_idx,
          words_skipped      |-> 0]
    ELSE [st EXCEPT !.page_idx = st.page_idx + 1,
                    !.words_skipped = st.words_skipped + 1]

\* lines 400-419 / 514-530: one iteration of the loop
MatcherStep(st, needle, hay, gap) ==
    IF needle[st.search_idx + 1] = hay[st.page_idx + 1]
    THEN [found_sequence     |-> Append(st.found_sequence,
                                        needle[st.search_idx + 1]),
          search_idx         |-> st.search_idx + 1,
          page_idx           |-> st.page_idx + 1,
          sequence_start_pos |-> IF st.sequence_start_pos = -1
                                 THEN st.page_idx
                                 ELSE st.sequence_start_pos,
          sequence_end_pos   |-> st.page_idx,
          words_skipped      |-> 0]
    ELSE LET skipped == [st EXCEPT !.page_idx = st.page_idx + 1,
                                   !.words_skipped = st.words_skipped + 1]
         IN  IF skipped.words_skipped > gap
             THEN MatcherRestart(skipped)
             ELSE skipped

\* lines 399-419 / 513-530: the whole loop
RECURSIVE MatcherRun(_, _, _, _)
MatcherRun(st, needle, hay, gap) ==
    IF MatcherRunning(st, needle, hay)
    THEN MatcherRun(MatcherStep(st, needle, hay, gap), needle, hay, gap)
    ELSE st

\* lines 422-426 / 532-535: match_ratio >= MIN_MATCH_RATIO and
\* len(found_sequence) >= MIN_WORDS_IN_SEQUENCE; match_ratio is
\* len(found_sequence) / len(search_words_list), 0 for an empty list
SequenceAccepted(found, needle) ==
    /\ IF Len(needle) > 0
       THEN Len(found) * MinMatchRatioDen >= MinMatchRatioNum * Len(needle)
       ELSE FALSE
    /\ Len(found) >= MIN_WORDS_IN_SEQUENCE

\* x in list, for a list of words
InList(w, list) == \E i \in 1..Len(list) : list[i] = w

\* line 429 / 537: [w for w in search_words_list if w not in found_sequence]
RECURSIVE MissingWords(_, _)
MissingWords(needle, found) ==
    IF needle = <<>> THEN <<>>
    ELSE IF InList(Head(needle), found)
         THEN MissingWords(Tail(needle), found)
         ELSE <<Head(needle)>> \o MissingWords(Tail(needle), found)

\* f"{match_ratio:.0%}": the ratio as a whole percentage, ties to even
MatchRatioPercent(found, needle) ==
    LET num == 100 * Len(found)
        q == num \div Len(needle)
        r2 == 2 * (num % Len(needle))
    IN  IF r2 > Len(needle) \/ (r2 = Len(needle) /\ q % 2 = 1)
        THEN q + 1
        ELSE q

-----------------------------------------------------------------------------
(* The stages of check_text_on_page (lines 231-578) as functions of the    *)
(* page text and the text to find.                                         *)

\* The exact search as it would be without text_to_find.strip()
ExactSearchUntrimmed(page, needle) ==
    LET position == Find(page, needle)
    IN  IF position # -1
        THEN [text_found |-> TRUE,
              match_type |-> "exact",
              context    |-> extract_context(page, position, Len(needle),
                                             CONTEXT_WORDS_BEFORE,
                                             CONTEXT_WORDS_AFTER)]
        ELSE [text_found |-> FALSE,
              match_type |-> "None",
              context    |-> NoContext]

\* The exact search as it would be were it made on the lower-cased texts, as
\* the searches of lines 439, 484 and 547 are
ExactSearchAnyCase(page, needle) ==
    LET search_text == Strip(needle)
        position == Find(Lower(page), Lower(search_text))
    IN  IF position # -1
        THEN [text_found |-> TRUE,
              match_type |-> "exact",
              context    |-> extract_context(page, position, Len(search_text),
                                             CONTEXT_WORDS_BEFORE,
                                             CONTEXT_WORDS_AFTER)]
        ELSE [text_found |-> FALSE,
              match_type |-> "None",
              context    |-> NoContext]

\* lines 298-311: the exact search
ExactSearch(page, needle) ==
    LET search_text == Strip(needle)
        position == Find(page, search_text)
    IN  IF position # -1
        THEN [text_found |-> TRUE,
              match_type |-> "exact",
              context    |-> extract_context(page, position, Len(search_text),
                                             CONTEXT_WORDS_BEFORE,
                                             CONTEXT_WORDS_AFTER)]
        ELSE [text_found |-> FALSE,
              match_type |-> "None",
              context    |-> NoContext]

\* line 324 / 471: the cleaned needle is long enough for a fuzzy search
FuzzyApplies(cleaned) ==
    cleaned # <<>> /\ Len(cleaned) > MIN_FUZZY_TEXT_LENGTH

\* lines 355-360: how many leading words of the fragment equal the pattern's
RECURSIVE MatchCount(_, _, _)
MatchCount(fragment_words, search_words, j) ==
    IF /\ j < Len(search_words)
       /\ j < Len(fragment_words)
       /\ fragment_words[j + 1] = search_words[j + 1]
    THEN MatchCount(fragment_words, search_words, j + 1)
    ELSE j

\* lines 338-368: the scan of the original text for the window whose cleaned
\* form starts with the first words of the cleaned needle, from offset i on
RECURSIVE BestMatchScan(_, _, _, _, _)
BestMatchScan(page, cleaned, i, best_match_pos, best_match_score) ==
    IF i >= Len(page) THEN best_match_pos
    ELSE LET search_words == Slice(Split(cleaned), 0, 3)
             search_pattern == Join(search_words)
             fragment == Slice(page, i, i + Len(cleaned) * 3)
             cleaned_fragment == clean_text_for_search(fragment, FALSE)
             match_count == MatchCount(Split(cleaned_fragment), search_words, 0)
         IN  IF /\ fragment # <<>>
                /\ StartsWith(cleaned_fragment, search_pattern)
                /\ match_count > best_match_score
             THEN IF match_count = Len(search_words)
                  THEN i
                  ELSE BestMatchScan(page, cleaned, i + 1, i, match_count)
             ELSE BestMatchScan(page, cleaned, i + 1,
                                best_match_pos, best_match_score)

BestMatchPos(page, cleaned) == BestMatchScan(page, cleaned, 0, -1, 0)

\* lines 326-382: level 1, the cleaned needle as a substring of the cleaned
\* page
CleanedSubstringLevel1(page, cleaned_search, cleaned_page) ==
    LET cleaned_position == Find(cleaned_page, cleaned_search)
        best_match_pos == BestMatchPos(page, cleaned_search)
    IN  IF cleaned_position = -1
        THEN [text_found |-> FALSE, context |-> NoContext]
        ELSE [text_found |-> TRUE,
              context |->
                  IF best_match_pos # -1
                  THEN extract_context(page, best_match_pos,
                                       Len(cleaned_search),
                                       CONTEXT_WORDS_BEFORE,
                                       CONTEXT_WORDS_AFTER)
                       @@ [cleaned_search |-> cleaned_search,
                           match_type     |-> "full_cleaned"]
                  ELSE NoContext]

\* lines 473-499: level 2, the digit-free cleaned needle as a substring of
\* the digit-free cleaned page
CleanedSubstringLevel2(page, cleaned_search, cleaned_page) ==
    LET cleaned_position == Find(cleaned_page, cleaned_search)
        words == Split(cleaned_search)
        first_word == IF words # <<>> THEN words[1] ELSE <<>>
        approx_start == Max(0, cleaned_position - 100)
        search_area == Slice(page, approx_start, Len(page))
        original_position == Find(Lower(search_area), Lower(first_word))
        located == first_word # <<>> /\ original_position # -1
    IN  IF cleaned_position = -1
        THEN [text_found |-> FALSE, match_type |-> "None",
              context |-> NoContext]
        ELSE [text_found |-> TRUE,
              match_type |-> IF located THEN "fuzzy" ELSE "None",
              context |->
                  IF located
                  THEN extract_context(page, original_position + approx_start,
                                       Len(cleaned_search),
                                       CONTEXT_WORDS_BEFORE,
                                       CONTEXT_WORDS_AFTER)
                       @@ [cleaned_search |-> cleaned_search,
                           match_type     |-> "full_cleaned_no_digits"]
                  ELSE NoContext]

\* lines 434-454 / 542-562: the context of an accepted word sequence, found
\* from the first occurrence of its first word in the original text
SequenceContext(page, st, needle) ==
    LET first_word == st.found_sequence[1]
        original_position == Find(Lower(page), Lower(first_word))
        match_length == Len(Join(st.found_sequence)) * 2
        missing_words == MissingWords(needle, st.found_sequence)
    IN  IF /\ st.sequence_start_pos # -1
           /\ st.found_sequence # <<>>
           /\ original_position # -1
        THEN extract_context(page, original_position, match_length,
                             CONTEXT_WORDS_BEFORE, CONTEXT_WORDS_AFTER)
             @@ [found_words   |-> st.found_sequence,
                 missing_words |-> IF missing_words # <<>>
                                   THEN missing_words
                                   ELSE "None",
                 match_ratio   |-> MatchRatioPercent(st.found_sequence, needle)]
        ELSE NoContext

\* lines 385-456 at level 1, lines 502-565 at level 2: the word-sequence
\* stage on the matcher's final locals st.  At level 1 the match type is
\* set afterwards (lines 458-459); at level 2 it is set with the context.
SequenceStage(page, cleaned_search, st, needle, lvl) ==
    IF SequenceAccepted(st.found_sequence, needle)
    THEN LET ctx == SequenceContext(page, st, needle)
         IN  [text_found |-> TRUE,
              match_type |-> IF lvl = 2 /\ ctx # NoContext
                             THEN "fuzzy"
                             ELSE "None",
              context |-> IF lvl = 2 /\ ctx # NoContext
                          THEN ctx @@ [cleaned_search |-> cleaned_search]
                          ELSE ctx]
    ELSE [text_found |-> FALSE, match_type |-> "None", context |-> NoContext]

-----------------------------------------------------------------------------
(* Inputs.  Pages are texts as BeautifulSoup's get_text(strip=True) gives  *)
(* them (no whitespace at either end); texts to find are arbitrary.        *)

\* Scenario A of the specification: the page
ScenarioAPage ==
    <<"W", "e", "l", "c", "o", "m", "e", " ", "t", "o", " ", "o", "u", "r",
    " ", "a", "n", "n", "u", "a", "l", " ", "s", "p", "r", "i", "n", "g",
    " ", "s", "a", "l", "e", " ", "e", "v", "e", "n", "t">>

\* Scenario A: the text to find
ScenarioANeedle ==
    <<"s", "p", "r", "i", "n", "g", " ", "s", "a", "l", "e", " ", "e", "v",
    "e", "n", "t">>

\* a text to find with whitespace around it
PaddedNeedle ==
    <<" ", "\t", "s", "a", "l", "e", " ", "e", "v", "e", "n", "t", "\n">>

\* a page whose words are separated by punctuation
PunctuatedPage ==
    <<"a", "b", ",", " ", "c", "d", "!", " ", "e", "f">>

\* the same words, separated by single spaces
PlainNeedle ==
    <<"a", "b", " ", "c", "d", " ", "e", "f">>

\* a page with one more word between the needle's words
GappedPage ==
    <<"A", "b", " ", "x", " ", "c", "d", " ", "e", "f">>

\* a needle whose first word is capitalised
CapitalNeedle ==
    <<"A", "b", " ", "c", "d", " ", "e", "f">>

\* a placeholder whose label merges with the letter before it
MergedPage ==
    <<"x", "[", "i", "d", "1", "|", "a", "b", "]", " ", "q", " ", "c", " ",
    "d">>

\* the same, with a number among the words
MergedDigitPage ==
    <<"x", "[", "i", "d", "1", "|", "a", "b", "]", " ", "5", " ", "q", " ",
    "c", " ", "d">>

\* the merged word followed by two words of the page
MergedNeedle ==
    <<"x", "a", "b", " ", "c", " ", "d">>

\* a placeholder longer than the scan window
LongTagPage ==
    <<"a", "b", "[", "i", "d", "1", "2", "3", "4", "5", "6", "7", "8", "9",
    "|", "c", "d", "]">>

\* the word the cleaned long-tag page reads
LongTagNeedle ==
    <<"a", "b", "c", "d">>

\* Scenario D: a page without id42 or 42
ScenarioDPage ==
    <<"N", "e", "w", " ", "P", "r", "o", "d", "u", "c", "t", " ", "L", "a",
    "u", "n", "c", "h", " ", "t", "o", "d", "a", "y">>

\* Scenario D: the text to find
ScenarioDNeedle ==
    <<"i", "d", "4", "2", " ", "P", "r", "o", "d", "u", "c", "t", " ", "L",
    "a", "u", "n", "c", "h">>

\* Scenario D: the words the needle is reduced to at level 2
ProductLaunch ==
    <<"P", "r", "o", "d", "u", "c", "t", " ", "L", "a", "u", "n", "c",
    "h">>

\* a page whose only text is a bracketed span
BracketedLaunchPage ==
    <<"[", "P", "r", "o", "d", "u", "c", "t", " ", "L", "a", "u", "n",
    "c", "h", "]">>

\* a page where a placeholder's label completes the number of the needle
SplitNumberPage ==
    <<"i", "d", "4", "[", "i", "d", "1", "|", "2", "]", " ", "P", "r",
    "o", "d", "u", "c", "t", " ", "L", "a", "u", "n", "c", "h">>

\* the words of the merged page, the first with a digit after it
MergedNumberedNeedle ==
    <<"x", "a", "b", "1", " ", "q", " ", "c", " ", "d">>

\* a single word of the Scenario A page
OneWordNeedle ==
    <<"s", "a", "l", "e">>

\* a word of the Scenario A page, capitalised
CapitalWordNeedle == <<"S", "a", "l", "e">>

NamedPages ==
    {ScenarioAPage, PunctuatedPage, GappedPage, MergedPage, MergedDigitPage,
     LongTagPage, ScenarioDPage, BracketedLaunchPage, SplitNumberPage}

NamedNeedles ==
    {ScenarioANeedle, PaddedNeedle, PlainNeedle, CapitalNeedle, MergedNeedle,
     LongTagNeedle, ScenarioDNeedle, OneWordNeedle, CapitalWordNeedle,
     MergedNumberedNeedle}

\* the words the generated texts are made of
TextWords == {<<"a">>, <<"b">>}

\* bounds on the number of words of a generated page / text to find
MaxPageWords == 4
MaxNeedleWords == 4

\* all sequences of at most n words
WordSeqs(n) == UNION {[1..k -> TextWords] : k \in 0..n}

PageTexts == NamedPages \cup {Join(ws) : ws \in WordSeqs(MaxPageWords)}

NeedleTexts == NamedNeedles \cup {Join(ws) : ws \in WordSeqs(MaxNeedleWords)}

\* the failures of lines 245-283 and 569-578, by the message returned
FetchErrors ==
    {"Timeout when accessing", "Connection error to", "HTTP error",
     "Request error", "Local file not found", "Invalid URL or file path",
     "Unexpected error"}

-----------------------------------------------------------------------------
(* check_text_on_page as a state machine.  pc is the stage about to run.   *)

MatcherLocals ==
    [found_sequence     |-> found_sequence,
     search_idx         |-> search_idx,
     page_idx           |-> page_idx,
     sequence_start_pos |-> sequence_start_pos,
     sequence_end_pos   |-> sequence_end_pos,
     words_skipped      |-> words_skipped]

SetMatcherLocals(st) ==
    /\ found_sequence' = st.found_sequence
    /\ search_idx' = st.search_idx
    /\ page_idx' = st.page_idx
    /\ sequence_start_pos' = st.sequence_start_pos
    /\ sequence_end_pos' = st.sequence_end_pos
    /\ words_skipped' = st.words_skipped

\* the state at the entry of check_text_on_page(url, text_to_find)
LookupInit(needles) ==
    /\ pc = "fetch"
    /\ call \in {[fn |-> "check_text_on_page", text_to_find |-> n] :
                    n \in needles}
    /\ ret = "None"
    /\ page_text = <<>>
    /\ text_found = FALSE
    /\ error = "None"
    /\ match_type = "None"
    /\ context = NoContext
    /\ cleaned_search_text = <<>>
    /\ cleaned_page_text = <<>>
    /\ level = 0
    /\ search_words_list = <<>>
    /\ page_words_list = <<>>
    /\ found_sequence = MatcherStart.found_sequence
    /\ search_idx = MatcherStart.search_idx
    /\ page_idx = MatcherStart.page_idx
    /\ sequence_start_pos = MatcherStart.sequence_start_pos
    /\ sequence_end_pos = MatcherStart.sequence_end_pos
    /\ words_skipped = MatcherStart.words_skipped
    /\ max_gap = MAX_WORDS_BETWEEN
    /\ NoWorkbook

Init == LookupInit(NeedleTexts)

\* Lines 245-283 and 569-578 as they would be were the failure recorded and
\* the lookup carried on with an empty page instead of returning
FetchFailsThenSearches ==
    /\ pc = "fetch"
    /\ \E e \in FetchErrors : error' = e
    /\ page_text' = <<>>
    /\ pc' = "exact"
    /\ UNCHANGED <<call, ret, text_found, match_type, context,
                   cleaned_search_text, cleaned_page_text, level>>
    /\ UNCHANGED matcherVars
    /\ UNCHANGED sheetVars

\* lines 245-283, 569-578: the page cannot be had; the error is returned
FetchFails ==
    /\ pc = "fetch"
    /\ \E e \in FetchErrors :
        /\ error' = e
        /\ ret' = <<FALSE, e, "None", "None">>
    /\ pc' = "done"
    /\ UNCHANGED <<call, page_text, text_found, match_type, context,
                   cleaned_search_text, cleaned_page_text, level>>
    /\ UNCHANGED matcherVars
    /\ UNCHANGED sheetVars

\* lines 245-296: the page is fetched and its text extracted
FetchPage ==
    /\ pc = "fetch"
    /\ page_text' \in PageTexts
    /\ pc' = "exact"
    /\ UNCHANGED <<call, ret, text_found, error, match_type, context,
                   cleaned_search_text, cleaned_page_text, level>>
    /\ UNCHANGED matcherVars
    /\ UNCHANGED sheetVars

\* Lines 298-314 as they would be were the fuzzy search entered whatever the
\* exact search found (no test of line 314)
ExactMatchThenFuzzy ==
    /\ pc = "exact"
    /\ LET r == ExactSearch(page_text, call.text_to_find)
       IN  /\ text_found' = r.text_found
           /\ match_type' = r.match_type
           /\ context' = r.context
           /\ pc' = "level1"
    /\ UNCHANGED <<call, ret, page_text, error, cleaned_search_text,
                   cleaned_page_text, level>>
    /\ UNCHANGED matcherVars
    /\ UNCHANGED sheetVars

\* lines 298-314: the exact search
ExactMatch ==
    /\ pc = "exact"
    /\ LET r == ExactSearch(page_text, call.text_to_find)
       IN  /\ text_found' = r.text_found
           /\ match_type' = r.match_type
           /\ context' = r.context
           /\ pc' = IF r.text_found THEN "return" ELSE "level1"
    /\ UNCHANGED <<call, ret, page_text, error, cleaned_search_text,
                   cleaned_page_text, level>>
    /\ UNCHANGED matcherVars
    /\ UNCHANGED sheetVars

\* lines 316-382: level 1 cleaning and the cleaned-substring search
Level1Substring ==
    /\ pc = "level1"
    /\ LET cleaned_search == clean_text_for_search(call.text_to_find, FALSE)
           cleaned_page == clean_text_for_search(page_text, FALSE)
           r == CleanedSubstringLevel1(page_text, cleaned_search, cleaned_page)
       IN  /\ cleaned_search_text' = cleaned_search
           /\ cleaned_page_text' = cleaned_page
           /\ level' = 1
           /\ IF FuzzyApplies(cleaned_search)
              THEN /\ text_found' = r.text_found
                   /\ context' = r.context
                   /\ pc' = IF r.text_found THEN "level1_end" ELSE "seq_begin"
              ELSE /\ UNCHANGED <<text_found, context>>
                   /\ pc' = "return"
    /\ UNCHANGED <<call, ret, page_text, error, match_type>>
    /\ UNCHANGED matcherVars
    /\ UNCHANGED sheetVars

\* the stage that follows the word-sequence stage of a level
AfterSequence(lvl) == IF lvl = 1 THEN "level1_end" ELSE "return"

\* lines 385-397 / 502-511: the word lists and the matcher's locals
SequenceBegin ==
    /\ pc = "seq_begin"
    /\ IF Len(Split(cleaned_search_text)) >= 2
       THEN /\ search_words_list' = Split(cleaned_search_text)
            /\ page_words_list' = Split(cleaned_page_text)
            /\ SetMatcherLocals(MatcherStart)
            /\ pc' = "matcher"
       ELSE /\ UNCHANGED <<search_words_list, page_words_list, found_sequence,
                           search_idx, page_idx, sequence_start_pos,
                           sequence_end_pos, words_skipped>>
            /\ pc' = AfterSequence(level)
    /\ UNCHANGED <<call, ret, max_gap>>
    /\ UNCHANGED lookupVars
    /\ UNCHANGED sheetVars

\* lines 399-419 / 513-530: one iteration of the matcher's loop
MatcherIterate ==
    /\ pc = "matcher"
    /\ MatcherRunning(MatcherLocals, search_words_list, page_words_list)
    /\ SetMatcherLocals(MatcherStep(MatcherLocals, search_words_list,
                                    page_words_list, max_gap))
    /\ UNCHANGED <<pc, call, ret, search_words_list, page_words_list, max_gap>>
    /\ UNCHANGED lookupVars
    /\ UNCHANGED sheetVars

\* lines 421-456 / 532-565: the loop is over; the thresholds decide
SequenceEnd ==
    /\ pc = "matcher"
    /\ ~MatcherRunning(MatcherLocals, search_words_list, page_words_list)
    /\ LET r == SequenceStage(page_text, cleaned_search_text, MatcherLocals,
                              search_words_list, level)
       IN  /\ text_found' = r.text_found
           /\ match_type' = r.match_type
           /\ context' = r.context
    /\ pc' = AfterSequence(level)
    /\ UNCHANGED <<call, ret, page_text, error, cleaned_search_text,
                   cleaned_page_text, level>>
    /\ UNCHANGED matcherVars
    /\ UNCHANGED sheetVars

\* lines 458-464: a level 1 match is fuzzy; without one level 2 follows
Level1End ==
    /\ pc = "level1_end"
    /\ IF text_found
       THEN match_type' = "fuzzy" /\ pc' = "return"
       ELSE UNCHANGED match_type /\ pc' = "level2"
    /\ UNCHANGED <<call, ret, page_text, text_found, error, context,
                   cleaned_search_text, cleaned_page_text, level>>
    /\ UNCHANGED matcherVars
    /\ UNCHANGED sheetVars

\* lines 466-499: level 2 cleaning and the cleaned-substring search
Level2Substring ==
    /\ pc = "level2"
    /\ LET cleaned_search == clean_text_for_search(call.text_to_find, TRUE)
           cleaned_page == clean_text_for_search(page_text, TRUE)
           r == CleanedSubstringLevel2(page_text, cleaned_search, cleaned_page)
       IN  /\ cleaned_search_text' = cleaned_search
           /\ cleaned_page_text' = cleaned_page
           /\ level' = 2
           /\ IF FuzzyApplies(cleaned_search)
              THEN /\ text_found' = r.text_found
                   /\ match_type' = r.match_type
                   /\ context' = r.context
                   /\ pc' = IF r.text_found THEN "return" ELSE "seq_begin"
              ELSE /\ UNCHANGED <<text_found, match_type, context>>
                   /\ pc' = "return"
    /\ UNCHANGED <<call, ret, page_text, error>>
    /\ UNCHANGED matcherVars
    /\ UNCHANGED sheetVars

\* line 567: return text_found, None, match_type, context
Return ==
    /\ pc = "return"
    /\ ret' = <<text_found, "None", match_type, context>>
    /\ pc' = "done"
    /\ UNCHANGED <<call>>
    /\ UNCHANGED lookupVars
    /\ UNCHANGED matcherVars
    /\ UNCHANGED sheetVars

Next ==
    \/ FetchFails
    \/ FetchPage
    \/ ExactMatch
    \/ Level1Substring
    \/ SequenceBegin
    \/ MatcherIterate
    \/ SequenceEnd
    \/ Level1End
    \/ Level2Substring
    \/ Return

Spec == Init /\ [][Next]_vars

-----------------------------------------------------------------------------
(* clean_text_for_search on its own: the function is applied to a text and *)
(* then to its own result; ret lists the results in order.                 *)

\* the pieces the texts to clean are concatenated from
CleanPieces ==
    {<<"[", "i", "d", "1", "|">>, <<"[">>, <<"]">>, <<"a">>, <<"1">>,
     <<" ">>, <<".">>}

\* bound on the number of pieces of a text to clean
MaxCleanPieces == 5

RECURSIVE Concat(_)
Concat(pieces) ==
    IF pieces = <<>> THEN <<>> ELSE Head(pieces) \o Concat(Tail(pieces))

CleanTexts ==
    {Concat(ps) : ps \in UNION {[1..k -> CleanPieces] : k \in 0..MaxCleanPieces}}

\* the lookup's variables, when no lookup is in progress
NoLookup ==
    /\ page_text = <<>>
    /\ text_found = FALSE
    /\ error = "None"
    /\ match_type = "None"
    /\ context = NoContext
    /\ cleaned_search_text = <<>>
    /\ cleaned_page_text = <<>>
    /\ level = 0

\* the matcher's variables, when no matcher is in progress
NoMatcher ==
    /\ search_words_list = <<>>
    /\ page_words_list = <<>>
    /\ found_sequence = <<>>
    /\ search_idx = 0
    /\ page_idx = 0
    /\ sequence_start_pos = -1
    /\ sequence_end_pos = -1
    /\ words_skipped = 0
    /\ max_gap = MAX_WORDS_BETWEEN

CleanInit ==
    /\ pc = "clean"
    /\ call \in {[fn |-> "clean_text_for_search", text |-> t,
                  remove_digits |-> d] : t \in CleanTexts, d \in BOOLEAN}
    /\ ret = <<>>
    /\ NoLookup
    /\ NoMatcher
    /\ NoWorkbook

\* clean_text_for_search(text, remove_digits), then the same on the result
CleanCall ==
    /\ pc = "clean"
    /\ LET arg == IF ret = <<>> THEN call.text ELSE ret[Len(ret)]
       IN  ret' = Append(ret, clean_text_for_search(arg, call.remove_digits))
    /\ pc' = IF ret = <<>> THEN "clean" ELSE "done"
    /\ UNCHANGED call
    /\ UNCHANGED lookupVars
    /\ UNCHANGED matcherVars
    /\ UNCHANGED sheetVars

CleanNext == CleanCall

SpecClean == CleanInit /\ [][CleanNext]_vars

-----------------------------------------------------------------------------
(* The five steps of clean_text_for_search, each on its own: a step is     *)
(* applied to a text and then to its own result; ret lists the results.    *)

\* step n of clean_text_for_search (lines 118, 121, 124, 127-154, 157-160)
NormalizationStep(n, s) ==
    CASE n = 1 -> ReplacePlaceholders(s)
      [] n = 2 -> RemoveBrackets(s)
      [] n = 3 -> ReplaceSpecials(s)
      [] n = 4 -> StripDigits(s)
      [] n = 5 -> CollapseWhitespace(s)

StepInit ==
    /\ pc = "step"
    /\ call \in {[fn |-> "clean_text_for_search", text |-> t, step |-> n] :
                    t \in CleanTexts, n \in 1..5}
    /\ ret = <<>>
    /\ NoLookup
    /\ NoMatcher
    /\ NoWorkbook

\* the step on the text, then the same step on the result
StepCall ==
    /\ pc = "step"
    /\ LET arg == IF ret = <<>> THEN call.text ELSE ret[Len(ret)]
       IN  ret' = Append(ret, NormalizationStep(call.step, arg))
    /\ pc' = IF ret = <<>> THEN "step" ELSE "done"
    /\ UNCHANGED call
    /\ UNCHANGED lookupVars
    /\ UNCHANGED matcherVars
    /\ UNCHANGED sheetVars

StepNext == StepCall

SpecSteps == StepInit /\ [][StepNext]_vars

-----------------------------------------------------------------------------
(* extract_context on its own.                                             *)

\* bounds on the texts, match lengths and word counts extract_context gets
MaxContextLen == 7
MaxContextMatch == 2
MaxContextWords == 2

ContextTexts ==
    UNION {[1..k -> {"a", " "}] : k \in 0..MaxContextLen}

ContextInit ==
    /\ pc = "extract"
    /\ call \in {[fn |-> "extract_context", text |-> t, position |-> p,
                  match_length |-> m, words_before |-> wb,
                  words_after |-> wa] :
                     t \in ContextTexts, p \in 0..MaxContextLen,
                     m \in 0..MaxContextMatch, wb \in 1..MaxContextWords,
                     wa \in 1..MaxContextWords}
    /\ call.position <= Len(call.text)
    /\ ret = "None"
    /\ NoLookup
    /\ NoMatcher
    /\ NoWorkbook

ContextCall ==
    /\ pc = "extract"
    /\ ret' = extract_context(call.text, call.position, call.match_length,
                              call.words_before, call.words_after)
    /\ pc' = "done"
    /\ UNCHANGED call
    /\ UNCHANGED lookupVars
    /\ UNCHANGED matcherVars
    /\ UNCHANGED sheetVars

ContextNext == ContextCall

SpecContext == ContextInit /\ [][ContextNext]_vars

-----------------------------------------------------------------------------
(* The word-sequence stage on its own: the lookup as it stands when the    *)
(* matcher starts at level 1 (the cleaned needle has two words or more, is *)
(* longer than MIN_FUZZY_TEXT_LENGTH and is no substring of the cleaned    *)
(* page), for each value of MAX_WORDS_BETWEEN up to MaxGap.                *)

\* bounds on the token lists and on MAX_WORDS_BETWEEN
MaxSearchWords == 4
MaxPageTokens == 5
MaxGap == 2

\* Scenario C of the specification
ScenarioCNeedle == <<<<"a">>, <<"c">>, <<"e">>>>
ScenarioCPage == <<<<"a">>, <<"b">>, <<"c">>, <<"d">>, <<"e">>>>

MatcherInputs ==
    {<<ScenarioCNeedle, ScenarioCPage>>}
    \cup {<<n, h>> : n \in WordSeqs(MaxSearchWords), h \in WordSeqs(MaxPageTokens)}

MatcherInit ==
    /\ pc = "matcher"
    /\ \E io \in MatcherInputs :
        /\ Len(io[1]) >= 2
        /\ FuzzyApplies(Join(io[1]))
        /\ Find(Join(io[2]), Join(io[1])) = -1
        /\ search_words_list = io[1]
        /\ page_words_list = io[2]
    /\ call = [fn |-> "check_text_on_page",
               text_to_find |-> Join(search_words_list)]
    /\ ret = "None"
    /\ page_text = Join(page_words_list)
    /\ text_found = FALSE
    /\ error = "None"
    /\ match_type = "None"
    /\ context = NoContext
    /\ cleaned_search_text = Join(search_words_list)
    /\ cleaned_page_text = Join(page_words_list)
    /\ level = 1
    /\ found_sequence = MatcherStart.found_sequence
    /\ search_idx = MatcherStart.search_idx
    /\ page_idx = MatcherStart.page_idx
    /\ sequence_start_pos = MatcherStart.sequence_start_pos
    /\ sequence_end_pos = MatcherStart.sequence_end_pos
    /\ words_skipped = MatcherStart.words_skipped
    /\ max_gap \in 0..MaxGap
    /\ NoWorkbook

MatcherNext ==
    \/ MatcherIterate
    \/ SequenceEnd

SpecMatcher == MatcherInit /\ [][MatcherNext]_vars

-----------------------------------------------------------------------------
(* The matcher's loop (lines 392-419) as a function of its inputs: any two *)
(* token lists, the needle's of two words or more as line 385 requires,    *)
(* and any value of MAX_WORDS_BETWEEN up to MaxGap.  Lists that the        *)
(* cleaned-substring stage would have matched are included.                *)

LoopInputs ==
    {<<ScenarioCNeedle, ScenarioCPage>>}
    \cup {<<n, h>> : n \in WordSeqs(MaxSearchWords), h \in WordSeqs(MaxPageTokens)}

LoopInit ==
    /\ pc = "matcher"
    /\ \E io \in LoopInputs :
        /\ Len(io[1]) >= 2
        /\ search_words_list = io[1]
        /\ page_words_list = io[2]
    /\ call = [fn |-> "check_text_on_page",
               text_to_find |-> Join(search_words_list)]
    /\ ret = "None"
    /\ page_text = Join(page_words_list)
    /\ text_found = FALSE
    /\ error = "None"
    /\ match_type = "None"
    /\ context = NoContext
    /\ cleaned_search_text = Join(search_words_list)
    /\ cleaned_page_text = Join(page_words_list)
    /\ level = 1
    /\ found_sequence = MatcherStart.found_sequence
    /\ search_idx = MatcherStart.search_idx
    /\ page_idx = MatcherStart.page_idx
    /\ sequence_start_pos = MatcherStart.sequence_start_pos
    /\ sequence_end_pos = MatcherStart.sequence_end_pos
    /\ words_skipped = MatcherStart.words_skipped
    /\ max_gap \in 0..MaxGap
    /\ NoWorkbook

LoopNext ==
    \/ MatcherIterate
    \/ SequenceEnd

SpecLoop == LoopInit /\ [][LoopNext]_vars

\* The loop runs in one thread that nothing suspends: an iteration that
\* can be taken is taken.
SpecLoopFair == LoopInit /\ [][LoopNext]_vars /\ WF_vars(MatcherIterate)

-----------------------------------------------------------------------------
(* process_excel_file (lines 580-741) from line 611 on: the sheets have    *)
(* been read.  A sheet is its column names and its number of rows; the     *)
(* cells of a row are drawn when the row is taken.  The lookup of a row is *)
(* the state machine of check_text_on_page, run to its end.                *)

\* bound on the number of rows of a sheet
MaxRows == 2

\* an empty cell as pandas reads it
NaN == "NaN"

\* pd.isna(cell)
isna(cell) == cell = NaN

\* column names of a sheet of nine columns, of eight, of three, and of a
\* sheet whose two columns are named G and I
WideColumns == <<"c1", "c2", "c3", "c4", "c5", "c6", "c7", "c8", "c9">>
EightColumns == <<"c1", "c2", "c3", "c4", "c5", "c6", "c7", "c8">>
NarrowColumns == <<"c1", "c2", "c3">>
LetterColumns == <<"G", "I">>

\* the sheets of the workbooks read
Sheets ==
    {[columns |-> WideColumns, rows |-> n] : n \in 0..MaxRows}
    \cup {[columns |-> c, rows |-> 1] :
             c \in {EightColumns, NarrowColumns, LetterColumns}}

\* pd.read_excel (lines 599-608): workbooks of one sheet or two
Workbooks == {<<a>> : a \in Sheets} \cup {<<a, b>> : a, b \in Sheets}

\* a link cell, with a space after the address
LinkCell == <<"h", "t", "t", "p", ":", "/", "/", "x", " ">>

\* the cells of the text column (G) and of the link column (I)
TextCells == {NaN, PaddedNeedle, MergedNeedle}
LinkCells == {NaN, LinkCell}

\* the texts of the pages behind the links
SheetPages == {ScenarioAPage, MergedPage, MergedDigitPage}

\* no call of check_text_on_page is in progress
NoCall ==
    /\ pc = "None"
    /\ call = [fn |-> "process_excel_file"]
    /\ ret = "None"
    /\ NoLookup
    /\ NoMatcher

\* check_text_on_page has returned and its result has been read: its
\* locals are gone
CallDropped ==
    /\ pc' = "None"
    /\ call' = [fn |-> "process_excel_file"]
    /\ ret' = "None"
    /\ page_text' = <<>>
    /\ text_found' = FALSE
    /\ error' = "None"
    /\ match_type' = "None"
    /\ context' = NoContext
    /\ cleaned_search_text' = <<>>
    /\ cleaned_page_text' = <<>>
    /\ level' = 0
    /\ search_words_list' = <<>>
    /\ page_words_list' = <<>>
    /\ SetMatcherLocals(MatcherStart)
    /\ UNCHANGED max_gap

\* lines 611-615
ExcelInit ==
    /\ NoCall
    /\ pc_excel = "sheet"
    /\ sheets_dict \in Workbooks
    /\ sheet_name = 0
    /\ row_text = "None"
    /\ row_link = "None"
    /\ idx = 0
    /\ total_rows = 0
    /\ found_count = 0
    /\ not_found_count = 0
    /\ error_count = 0
    /\ total_rows_all = 0
    /\ found_count_all = 0
    /\ not_found_count_all = 0
    /\ error_count_all = 0
    /\ found_matches = <<>>

\* the sheet that line 618 takes next
NextSheet == sheets_dict[sheet_name + 1]

\* lines 624 and 628: a column is missing and the sheet is skipped
ColumnMissing(df) ==
    \/ ~InList("G", df.columns) /\ Len(df.columns) < 7
    \/ ~InList("I", df.columns) /\ Len(df.columns) < 9

\* lines 633-634: df.iloc[:, 6] and df.iloc[:, 8] exist
ColumnsInRange(df) == Len(df.columns) > 6 /\ Len(df.columns) > 8

\* lines 618-630: the next sheet lacks a column and is skipped
SheetSkipped ==
    /\ pc_excel = "sheet"
    /\ sheet_name < Len(sheets_dict)
    /\ ColumnMissing(NextSheet)
    /\ sheet_name' = sheet_name + 1
    /\ UNCHANGED <<pc_excel, sheets_dict, row_text, row_link, idx,
                   found_matches>>
    /\ UNCHANGED sheetCounters
    /\ UNCHANGED allCounters
    /\ UNCHANGED <<pc, call, ret>>
    /\ UNCHANGED lookupVars
    /\ UNCHANGED matcherVars

\* lines 618-634, 739-741: the next sheet passes the tests of lines 624 and
\* 628 by its column names and has no seventh or ninth column; iloc raises
\* IndexError, which line 741 raises again
SheetRaises ==
    /\ pc_excel = "sheet"
    /\ sheet_name < Len(sheets_dict)
    /\ ~ColumnMissing(NextSheet)
    /\ ~ColumnsInRange(NextSheet)
    /\ sheet_name' = sheet_name + 1
    /\ pc_excel' = "raised"
    /\ UNCHANGED <<sheets_dict, row_text, row_link, idx, found_matches>>
    /\ UNCHANGED sheetCounters
    /\ UNCHANGED allCounters
    /\ UNCHANGED <<pc, call, ret>>
    /\ UNCHANGED lookupVars
    /\ UNCHANGED matcherVars

\* lines 618-644: the next sheet is taken and its counters are set
SheetBegin ==
    /\ pc_excel = "sheet"
    /\ sheet_name < Len(sheets_dict)
    /\ ~ColumnMissing(NextSheet)
    /\ ColumnsInRange(NextSheet)
    /\ sheet_name' = sheet_name + 1
    /\ total_rows' = NextSheet.rows
    /\ found_count' = 0
    /\ not_found_count' = 0
    /\ error_count' = 0
    /\ idx' = 0
    /\ pc_excel' = "row"
    /\ UNCHANGED <<sheets_dict, row_text, row_link, found_matches>>
    /\ UNCHANGED allCounters
    /\ UNCHANGED <<pc, call, ret>>
    /\ UNCHANGED lookupVars
    /\ UNCHANGED matcherVars

\* the sheet in progress
df == sheets_dict[sheet_name]

\* Lines 644-666 as they would be without the continue of line 651: the
\* empty row is counted as an error and looked up all the same, its cells
\* as str() gives them
RowEmptyLooksUp ==
    /\ pc_excel = "row"
    /\ idx < df.rows
    /\ \E t \in TextCells, l \in LinkCells :
        /\ isna(t) \/ isna(l)
        /\ row_text' = IF isna(t) THEN <<"n", "a", "n">> ELSE Strip(t)
        /\ row_link' = IF isna(l) THEN <<"n", "a", "n">> ELSE Strip(l)
    /\ idx' = idx + 1
    /\ error_count' = error_count + 1
    /\ pc_excel' = "lookup"
    /\ pc' = "fetch"
    /\ call' = [fn |-> "check_text_on_page", url |-> row_link',
                text_to_find |-> row_text']
    /\ UNCHANGED <<sheets_dict, sheet_name, total_rows, found_count,
                   not_found_count, found_matches>>
    /\ UNCHANGED allCounters
    /\ UNCHANGED ret
    /\ UNCHANGED lookupVars
    /\ UNCHANGED matcherVars

\* lines 644-651: the next row has an empty text or link; it is counted as
\* an error and the loop goes on
RowEmpty ==
    /\ pc_excel = "row"
    /\ idx < df.rows
    /\ \E t \in TextCells, l \in LinkCells :
        /\ isna(t) \/ isna(l)
        /\ row_text' = t
        /\ row_link' = l
    /\ idx' = idx + 1
    /\ error_count' = error_count + 1
    /\ UNCHANGED <<pc_excel, sheets_dict, sheet_name, total_rows, found_count,
                   not_found_count, found_matches>>
    /\ UNCHANGED allCounters
    /\ UNCHANGED <<pc, call, ret>>
    /\ UNCHANGED lookupVars
    /\ UNCHANGED matcherVars

\* lines 644-666: the next row has a text and a link; both are stripped and
\* check_text_on_page(link, text) is called
RowLookup ==
    /\ pc_excel = "row"
    /\ idx < df.rows
    /\ \E t \in TextCells, l \in LinkCells :
        /\ ~(isna(t) \/ isna(l))
        /\ row_text' = Strip(t)
        /\ row_link' = Strip(l)
    /\ idx' = idx + 1
    /\ pc_excel' = "lookup"
    /\ pc' = "fetch"
    /\ call' = [fn |-> "check_text_on_page", url |-> row_link',
                text_to_find |-> row_text']
    /\ UNCHANGED <<sheets_dict, sheet_name, found_matches>>
    /\ UNCHANGED sheetCounters
    /\ UNCHANGED allCounters
    /\ UNCHANGED ret
    /\ UNCHANGED lookupVars
    /\ UNCHANGED matcherVars

\* lines 245-296 for the pages behind the links of the sheets
RowFetchPage == FetchPage /\ page_text' \in SheetPages

\* lines 666-703: check_text_on_page has returned (found, error,
\* match_type, context); the row is counted by its result, and a found row
\* is appended to found_matches.  The callee's locals are gone.
RowResult ==
    /\ pc_excel = "lookup"
    /\ pc = "done"
    /\ IF ret[2] # "None"
       THEN /\ error_count' = error_count + 1
            /\ UNCHANGED <<found_count, not_found_count, found_matches>>
       ELSE IF ret[1]
            THEN /\ found_matches' = Append(found_matches,
                                            <<row_link, row_text>>)
                 /\ found_count' = found_count + 1
                 /\ UNCHANGED <<not_found_count, error_count>>
            ELSE /\ not_found_count' = not_found_count + 1
                 /\ UNCHANGED <<found_count, error_count, found_matches>>
    /\ pc_excel' = "row"
    /\ CallDropped
    /\ UNCHANGED <<sheets_dict, sheet_name, row_text, row_link, idx,
                   total_rows>>
    /\ UNCHANGED allCounters

\* lines 644, 705-717: the rows of the sheet are exhausted; the sheet's
\* counters are added to the totals
SheetEnd ==
    /\ pc_excel = "row"
    /\ idx = df.rows
    /\ total_rows_all' = total_rows_all + total_rows
    /\ found_count_all' = found_count_all + found_count
    /\ not_found_count_all' = not_found_count_all + not_found_count
    /\ error_count_all' = error_count_all + error_count
    /\ pc_excel' = "sheet"
    /\ UNCHANGED <<sheets_dict, sheet_name, row_text, row_link, idx,
                   found_matches>>
    /\ UNCHANGED sheetCounters
    /\ UNCHANGED <<pc, call, ret>>
    /\ UNCHANGED lookupVars
    /\ UNCHANGED matcherVars

\* lines 618, 719-735: no sheet is left; the matches are saved and the
\* totals logged
SheetsDone ==
    /\ pc_excel = "sheet"
    /\ sheet_name = Len(sheets_dict)
    /\ pc_excel' = "returned"
    /\ UNCHANGED <<sheets_dict, sheet_name, row_text, row_link, idx,
                   found_matches>>
    /\ UNCHANGED sheetCounters
    /\ UNCHANGED allCounters
    /\ UNCHANGED <<pc, call, ret>>
    /\ UNCHANGED lookupVars
    /\ UNCHANGED matcherVars

ExcelNext ==
    \/ SheetSkipped
    \/ SheetRaises
    \/ SheetBegin
    \/ RowEmpty
    \/ RowLookup
    \/ FetchFails
    \/ RowFetchPage
    \/ ExactMatch
    \/ Level1Substring
    \/ SequenceBegin
    \/ MatcherIterate
    \/ SequenceEnd
    \/ Level1End
    \/ Level2Substring
    \/ Return
    \/ RowResult
    \/ SheetEnd
    \/ SheetsDone

SpecExcel == ExcelInit /\ [][ExcelNext]_vars

-----------------------------------------------------------------------------
(* Properties of check_text_on_page, checked under Spec.                   *)

\* the lookup has returned a result and not an error
Returned == pc = "done" /\ error = "None"

\* C1: when the trimmed text to find is a literal substring of the page
\* text, the lookup returns found = true with match type 'exact' and the
\* context's found text is the trimmed text to find.
C1_ExactMatchReturnsTrimmedNeedle ==
    (Returned /\ Find(page_text, Strip(call.text_to_find)) # -1)
        => /\ text_found
           /\ match_type = "exact"
           /\ context # NoContext
           /\ context.found = Strip(call.text_to_find)

\* Scenario A has returned: 'spring sale event' is found exactly
C1_Witness ==
    /\ Returned
    /\ page_text = ScenarioAPage
    /\ call.text_to_find = ScenarioANeedle
    /\ match_type = "exact"
    /\ context.found = ScenarioANeedle

\* a padded text to find has been found exactly, as its trimmed form
C1_WitnessPadded ==
    /\ Returned
    /\ call.text_to_find = PaddedNeedle
    /\ match_type = "exact"
    /\ context.found # call.text_to_find

\* C2: the context is present if and only if the result is a match (found
\* is true) and no error message is returned.
C2_ContextIffMatch ==
    pc = "done" => ((context # NoContext) <=> (text_found /\ error = "None"))

\* C3: the found text of every context is a contiguous slice of the original
\* page text with the whitespace around it removed: page_text[p : p + L]
\* trimmed, for some offset p >= 0 and length L.
C3_FoundIsSliceOfPage ==
    context # NoContext
        => \E p \in 0..Len(page_text), L \in 0..Len(page_text) :
               context.found = Strip(Slice(page_text, p, p + L))

\* a fuzzy match has returned a found text that the cleaned page does not
\* contain: it was cut from the original text
C3_Witness ==
    /\ Returned
    /\ match_type = "fuzzy"
    /\ context # NoContext
    /\ context.found # <<>>
    /\ Find(cleaned_page_text, context.found) = -1

\* the word-sequence stage of the level the lookup ended in has run: the
\* cleaned needle was long enough, was no substring of the cleaned page and
\* had two words or more
SequenceStageDecided ==
    /\ Returned
    /\ level \in {1, 2}
    /\ FuzzyApplies(cleaned_search_text)
    /\ Find(cleaned_page_text, cleaned_search_text) = -1
    /\ Len(Split(cleaned_search_text)) >= 2

\* C9: the word-sequence stage declares a match if and only if
\* 10 * |found words| >= 7 * |needle tokens| and |found words| >= 3; a
\* lookup it accepts is classified FUZZY (match type 'fuzzy'), a lookup it
\* rejects as the last stage is NOT_FOUND.
C9_ThresholdsDecideFuzzy ==
    SequenceStageDecided
        => LET accepted == /\ 10 * Len(found_sequence) >= 7 * Len(search_words_list)
                           /\ Len(found_sequence) >= 3
           IN  /\ text_found <=> accepted
               /\ accepted => match_type = "fuzzy"
               /\ ~accepted => match_type = "None"

\* the number of tokens of the needle that occur among the tokens of the page
SharedWords(needle_words, page_words) ==
    Cardinality({i \in 1..Len(needle_words) : InList(needle_words[i], page_words)})

\* the needle has a word and shares at most one word with the page, whether
\* the words are taken from the raw texts or from the texts cleaned at level
\* 1 or level 2
SharesAtMostOneWord ==
    /\ Split(call.text_to_find) # <<>>
    /\ SharedWords(Split(call.text_to_find), Split(page_text)) <= 1
    /\ SharedWords(Split(clean_text_for_search(call.text_to_find, FALSE)),
                   Split(clean_text_for_search(page_text, FALSE))) <= 1
    /\ SharedWords(Split(clean_text_for_search(call.text_to_find, TRUE)),
                   Split(clean_text_for_search(page_text, TRUE))) <= 1

\* no substring stage finds the needle: neither the trimmed needle in the
\* page text nor the cleaned needle in the cleaned page, at either level
NoSubstringHit ==
    /\ Find(page_text, Strip(call.text_to_find)) = -1
    /\ Find(clean_text_for_search(page_text, FALSE),
            clean_text_for_search(call.text_to_find, FALSE)) = -1
    /\ Find(clean_text_for_search(page_text, TRUE),
            clean_text_for_search(call.text_to_find, TRUE)) = -1

NotFoundResult ==
    /\ ~text_found
    /\ match_type = "None"
    /\ context = NoContext
    /\ error = "None"

\* C10 as stated: whenever the needle shares at most one word with the
\* page, the lookup returns NOT_FOUND with no context and no error.
C10_SharedWordNotFound ==
    (Returned /\ SharesAtMostOneWord) => NotFoundResult

\* C10 as amended: whenever the needle shares at most one word with the page
\* and no substring stage finds it, the lookup returns NOT_FOUND with no
\* context and no error.
C10_SharedWordNotFoundUnlessSubstring ==
    (Returned /\ SharesAtMostOneWord /\ NoSubstringHit) => NotFoundResult

\* a lookup whose needle shares exactly one word with the page has run the
\* word-sequence stage at level 2 and returned NOT_FOUND
C10_Witness ==
    /\ Returned
    /\ SharesAtMostOneWord
    /\ NoSubstringHit
    /\ SharedWords(Split(cleaned_search_text), Split(cleaned_page_text)) = 1
    /\ level = 2
    /\ Len(found_sequence) = 1
    /\ NotFoundResult

-----------------------------------------------------------------------------
(* Properties of the word-sequence matcher, checked under SpecMatcher.     *)

\* the loop of the matcher has ended and the thresholds were applied
MatcherEnded == pc = "level1_end"

\* the number of words the matcher finds with MAX_WORDS_BETWEEN = gap
FoundWith(gap) ==
    Len(MatcherRun(MatcherStart, search_words_list, page_words_list,
                   gap).found_sequence)

\* C4: the matcher is monotone in MAX_WORDS_BETWEEN: with the same token
\* lists, no smaller value finds more words than a larger one.
C4_MonotoneInMaxGap ==
    MatcherEnded
        => \A g \in 0..max_gap : FoundWith(g) <= Len(found_sequence)

SetMax(S) == CHOOSE x \in S : \A y \in S : y <= x

\* the length of the longest in-order subsequence of the needle that ends
\* with needle[i] matched at hay[j], consecutive matches being separated by
\* at most gap unmatched tokens of the haystack
RECURSIVE ChainEndingAt(_, _, _, _, _)
ChainEndingAt(needle, hay, gap, i, j) ==
    IF needle[i] # hay[j] THEN 0
    ELSE 1 + SetMax({0} \cup {ChainEndingAt(needle, hay, gap, i2, j2) :
                                 i2 \in 1..(i - 1),
                                 j2 \in Max(1, j - gap - 1)..(j - 1)})

LongestGappedSubsequence(needle, hay, gap) ==
    SetMax({0} \cup {ChainEndingAt(needle, hay, gap, i, j) :
                        i \in 1..Len(needle), j \in 1..Len(hay)})

\* C5: the found words are a longest in-order subsequence of the needle
\* tokens that occurs in the haystack tokens with at most MAX_WORDS_BETWEEN
\* unmatched tokens between consecutive matches.
C5_FoundIsLongest ==
    MatcherEnded
        => Len(found_sequence)
               = LongestGappedSubsequence(search_words_list, page_words_list,
                                          max_gap)

-----------------------------------------------------------------------------
(* Properties of clean_text_for_search, checked under SpecClean.           *)

\* C6: cleaning is idempotent: cleaning the cleaned text, with the same
\* digit flag, gives the cleaned text.
C6_CleanIdempotent ==
    Len(ret) = 2 => ret[2] = ret[1]

\* a text with digits, brackets and specials was cleaned with the digits
\* removed, to a non-empty text, and cleaned again
C6_Witness ==
    /\ Len(ret) = 2
    /\ call.remove_digits
    /\ HasDigit(call.text)
    /\ FindChar(call.text, "]", 1) # 0
    /\ FindChar(call.text, ".", 1) # 0
    /\ ret[1] # <<>>

\* C7: cleaning never increases the length of the text.
C7_CleanNeverLonger ==
    Len(ret) >= 1 => Len(ret[1]) <= Len(call.text)

\* a text was changed by cleaning and kept its length
C7_Witness ==
    /\ Len(ret) >= 1
    /\ ret[1] # call.text
    /\ Len(ret[1]) = Len(call.text)
    /\ Len(ret[1]) >= 3

-----------------------------------------------------------------------------
(* Properties of extract_context, checked under SpecContext.               *)

\* the last n elements of a list (all of it when it has fewer)
LastWords(words, n) == SubSeq(words, Max(1, Len(words) - n + 1), Len(words))
\* the first n elements of a list (all of it when it has fewer)
FirstWords(words, n) == SubSeq(words, 1, Min(n, Len(words)))

\* the match starts at the start of a word and ends at the end of a word
MatchIsWordAligned ==
    LET text == call.text
        first == call.position + 1
        last == call.position + call.match_length
    IN  /\ call.match_length >= 1
        /\ last <= Len(text)
        /\ ~IsSpace(text[first]) /\ ~IsSpace(text[last])
        /\ first = 1 \/ IsSpace(text[first - 1])
        /\ last = Len(text) \/ IsSpace(text[last + 1])

\* C8: 'before' is made of the words_before words that precede the match
\* (all the words before it when there are fewer) and 'after' of the
\* words_after words that follow it (all the words after it when there are
\* fewer).
C8_ContextHoldsWholeWords ==
    (pc = "done" /\ MatchIsWordAligned)
        => /\ Split(ret.before)
                = LastWords(Split(Slice(call.text, 0, call.position)),
                            call.words_before)
           /\ Split(ret.after)
                = FirstWords(Split(Slice(call.text,
                                         call.position + call.match_length,
                                         Len(call.text))),
                             call.words_after)

-----------------------------------------------------------------------------
(* Scenario D of the specification, checked under Spec.                    *)

\* the lookup is Scenario D's: the text to find is "id42 Product Launch" and
\* the page contains "Product Launch" but neither "id42" nor "42"
ScenarioDLookup ==
    /\ Returned
    /\ call.text_to_find = ScenarioDNeedle
    /\ Find(page_text, ProductLaunch) # -1
    /\ Find(page_text, <<"i", "d", "4", "2">>) = -1
    /\ Find(page_text, <<"4", "2">>) = -1

\* the lookup ended at level 2 with the needle reduced to "Product Launch"
\* and found as a substring of the cleaned page
FoundAtLevel2BySubstring ==
    /\ level = 2
    /\ cleaned_search_text = ProductLaunch
    /\ Find(cleaned_page_text, cleaned_search_text) # -1
    /\ text_found

\* the result is classified 'fuzzy' and carries the level 2 context
ClassifiedFuzzyAtLevel2 ==
    /\ match_type = "fuzzy"
    /\ context # NoContext
    /\ context.cleaned_search = ProductLaunch

ScenarioDPageSurvivesCleaning ==
    /\ Find(clean_text_for_search(page_text, FALSE), <<"i", "d", "4", "2">>) = -1
    /\ Find(clean_text_for_search(page_text, TRUE), ProductLaunch) # -1

\* lines 482-486: the word "product" is read, in any case, in the page from
\* 100 characters before the offset of the match in the cleaned page
ProductLocated ==
    LET cleaned_position == Find(clean_text_for_search(page_text, TRUE),
                                 ProductLaunch)
        approx_start == Max(0, cleaned_position - 100)
    IN  Find(Lower(Slice(page_text, approx_start, Len(page_text))),
             <<"p", "r", "o", "d", "u", "c", "t">>) # -1

-----------------------------------------------------------------------------
(* The order of the stages, checked under Spec.                            *)

\* a fuzzy stage is about to be evaluated or is being evaluated
InFuzzyStage == pc \in {"level1", "seq_begin", "matcher", "level2"}

\* the word-sequence stage of the level is about to run or is running
InSequenceStage ==
    \/ pc = "matcher"
    \/ pc = "seq_begin" /\ Len(Split(cleaned_search_text)) >= 2

\* C12: the stages run in order and a stage is evaluated only if every
\* earlier stage failed: a fuzzy stage only after the exact search failed,
\* the word-sequence stage of a level only after the cleaned-substring
\* search of that level failed, level 2 only after both stages of level 1
\* failed; once a stage has succeeded no other stage is evaluated and its
\* outcome is the one returned.
C12_StagesInOrder ==
    [][/\ InFuzzyStage
          => /\ ~text_found
             /\ Find(page_text, Strip(call.text_to_find)) = -1
       /\ InSequenceStage
          => Find(cleaned_page_text, cleaned_search_text) = -1
       /\ pc = "level2"
          => /\ level = 1
             /\ Find(cleaned_page_text, cleaned_search_text) = -1
             /\ ~SequenceAccepted(found_sequence, search_words_list)
       /\ text_found
          => /\ pc \in {"level1_end", "return"}
             /\ pc' \in {"return", "done"}
             /\ text_found'
             /\ context' = context
             /\ level' = level
             /\ match_type' \in {match_type, "fuzzy"}
       /\ pc = "return"
          => ret' = <<text_found, "None", match_type, context>>]_vars

\* a lookup went through every stage and succeeded in the last one, the
\* word-sequence stage of level 2
C12_Witness ==
    /\ Returned
    /\ level = 2
    /\ text_found
    /\ Find(page_text, Strip(call.text_to_find)) = -1
    /\ Find(clean_text_for_search(page_text, FALSE),
            clean_text_for_search(call.text_to_find, FALSE)) = -1
    /\ Find(cleaned_page_text, cleaned_search_text) = -1
    /\ SequenceAccepted(found_sequence, search_words_list)
    /\ ret[1] = TRUE

-----------------------------------------------------------------------------
(* Errors, checked under Spec.                                             *)

\* C13: whenever an error message is returned the result is found = false,
\* match type None and context None, and no matching was done; no result
\* has both an error message and a match.
C13_ErrorMeansNoMatch ==
    /\ error # "None"
       => /\ pc = "done"
          /\ ~text_found /\ match_type = "None" /\ context = NoContext
          /\ level = 0
          /\ ret = <<FALSE, error, "None", "None">>
    /\ pc = "done"
       => /\ ret[2] = error
          /\ ret[1] => ret[2] = "None"

\* a lookup has returned one of the error messages
C13_Witness ==
    /\ pc = "done"
    /\ error \in FetchErrors
    /\ ret[2] = error
    /\ ret[1] = FALSE

-----------------------------------------------------------------------------
(* Scenario C of the specification, checked under SpecMatcher.             *)

\* the matcher runs on Scenario C: needle [a, c, e], haystack
\* [a, b, c, d, e], MAX_WORDS_BETWEEN = 1
ScenarioCRun ==
    /\ search_words_list = ScenarioCNeedle
    /\ page_words_list = ScenarioCPage
    /\ max_gap = 1

\* C14: on Scenario C the matcher matches a, c and e in turn, skipping
\* exactly one word of the haystack between two matches, and ends with
\* found words [a, c, e], a ratio of 1 and the thresholds met.
C14_ScenarioCFindsAll ==
    ScenarioCRun
        => /\ pc = "matcher"
              => /\ found_sequence
                        = SubSeq(search_words_list, 1, (page_idx + 1) \div 2)
                 /\ search_idx = (page_idx + 1) \div 2
                 /\ words_skipped
                        = IF page_idx > 0 /\ page_idx % 2 = 0 THEN 1 ELSE 0
           /\ pc = "level1_end"
              => /\ found_sequence = ScenarioCNeedle
                 /\ page_idx = 5
                 /\ sequence_start_pos = 0 /\ sequence_end_pos = 4
                 /\ Len(found_sequence) = Len(search_words_list)
                 /\ SequenceAccepted(found_sequence, search_words_list)
                 /\ text_found

\* the matcher has ended on Scenario C with the three words found
C14_Witness ==
    /\ ScenarioCRun
    /\ pc = "level1_end"
    /\ found_sequence = <<<<"a">>, <<"c">>, <<"e">>>>
    /\ text_found

-----------------------------------------------------------------------------
(* The restart of the matcher, checked under SpecMatcher.                  *)

\* the iteration about to run is a mismatch that takes the count of
\* consecutive unmatched words above MAX_WORDS_BETWEEN
GapOverflows ==
    /\ pc = "matcher"
    /\ MatcherRunning(MatcherLocals, search_words_list, page_words_list)
    /\ search_words_list[search_idx + 1] # page_words_list[page_idx + 1]
    /\ words_skipped + 1 > max_gap

\* C15: at the step where the count of consecutive unmatched words becomes
\* greater than MAX_WORDS_BETWEEN the match in progress is discarded: the
\* found words become empty, the needle cursor returns to 0, the start
\* position is cleared and the count of skipped words returns to 0.
C15_OverflowDiscardsMatch ==
    [][GapOverflows
          => /\ found_sequence' = <<>>
             /\ search_idx' = 0
             /\ sequence_start_pos' = -1
             /\ words_skipped' = 0
             /\ page_idx' = page_idx + 1]_vars

\* a match in progress has been discarded: a word was matched before (its
\* position is still recorded as the end of the sequence) and nothing is
\* left of the match
C15_Witness ==
    /\ pc = "matcher"
    /\ sequence_end_pos # -1
    /\ page_idx > sequence_end_pos + 1
    /\ found_sequence = <<>>
    /\ search_idx = 0
    /\ sequence_start_pos = -1
    /\ words_skipped = 0

-----------------------------------------------------------------------------
(* The gaps between the matcher's found words, checked under SpecMatcher.  *)

\* the haystack positions (0-based) of the words of the found sequence the
\* matcher holds after its first n iterations, st being its locals after
\* the first k iterations and positions the positions of st.found_sequence
RECURSIVE PositionsAfter(_, _, _, _)
PositionsAfter(st, positions, k, n) ==
    IF k >= n \/ ~MatcherRunning(st, search_words_list, page_words_list)
    THEN positions
    ELSE LET next == MatcherStep(st, search_words_list, page_words_list,
                                 max_gap)
         IN  PositionsAfter(
                 next,
                 IF Len(next.found_sequence) = Len(st.found_sequence) + 1
                 THEN Append(positions, st.page_idx)
                 ELSE IF next.found_sequence = <<>> THEN <<>> ELSE positions,
                 k + 1, n)

\* the positions of the words of the current found sequence
FoundPositions == PositionsAfter(MatcherStart, <<>>, 0, page_idx)

\* C16: in every state of the matcher the haystack positions of consecutive
\* found words are strictly increasing and at most MAX_WORDS_BETWEEN
\* unmatched haystack words lie between two consecutive ones.
C16_GapsWithinBound ==
    LET positions == FoundPositions
    IN  /\ Len(positions) = Len(found_sequence)
        /\ \A k \in 1..Len(positions) :
               /\ positions[k] \in 0..(page_idx - 1)
               /\ page_words_list[positions[k] + 1] = found_sequence[k]
        /\ \A k \in 1..(Len(positions) - 1) :
               /\ positions[k] < positions[k + 1]
               /\ positions[k + 1] - positions[k] - 1 <= max_gap

\* the found sequence holds two words that lie MAX_WORDS_BETWEEN >= 1
\* unmatched words apart in the haystack
C16_Witness ==
    LET positions == FoundPositions
    IN  /\ max_gap >= 1
        /\ Len(found_sequence) >= 2
        /\ \E k \in 1..(Len(positions) - 1) :
               positions[k + 1] - positions[k] - 1 = max_gap

-----------------------------------------------------------------------------
(* The matcher on a haystack that holds the needle's words in a row,       *)
(* checked under SpecLoop.                                                 *)

\* the needle's tokens are tokens i+1 .. i+|needle| of the haystack
RunAt(needle, hay, i) ==
    /\ i + Len(needle) <= Len(hay)
    /\ SubSeq(hay, i + 1, i + Len(needle)) = needle

\* the needle's tokens occur as a contiguous run in the haystack's
ContiguousRun(needle, hay) ==
    \E i \in 0..Len(hay) : RunAt(needle, hay, i)

-----------------------------------------------------------------------------
(* The found words as a prefix of the needle, checked under SpecMatcher.   *)

\* C18: in every state of the matcher's loop the found words are the first
\* search_idx words of the needle, so their number lies between 0 and the
\* number of needle words and the match ratio between 0 and 1.
C18_FoundIsNeedlePrefix ==
    /\ search_idx \in 0..Len(search_words_list)
    /\ found_sequence = SubSeq(search_words_list, 1, search_idx)
    /\ Len(search_words_list) > 0
    /\ Len(found_sequence) \in 0..Len(search_words_list)

\* the loop is running with a proper non-empty prefix of the needle found,
\* matched from a word of the haystack other than its first
C18_Witness ==
    /\ pc = "matcher"
    /\ search_idx > 0
    /\ search_idx < Len(search_words_list)
    /\ sequence_start_pos > 0
    /\ sequence_end_pos # -1
    /\ found_sequence = SubSeq(search_words_list, 1, search_idx)

-----------------------------------------------------------------------------
(* The match type of a found text, checked under Spec.                     *)

\* C19: whenever found = true is returned the match type is 'exact' or
\* 'fuzzy'; match type None is returned only with found = false.
C19_FoundHasMatchType ==
    Returned
        => /\ ret[1] = TRUE => ret[3] \in {"exact", "fuzzy"}
           /\ ret[3] = "None" => ret[1] = FALSE

-----------------------------------------------------------------------------
(* The steps of clean_text_for_search, checked under SpecSteps.            *)

\* C20: each of the five steps is idempotent on its own output: applying
\* the step to its own result gives that result.
C20_StepsIdempotent ==
    Len(ret) = 2 => ret[2] = ret[1]

-----------------------------------------------------------------------------
(* The missing words reported with an accepted word sequence, checked      *)
(* under SpecMatcher.                                                      *)

\* the word-sequence stage has accepted a sequence and reported its context
SequenceReported ==
    pc = "level1_end" /\ text_found /\ context # NoContext

\* the needle's words that the matcher did not match: found_sequence is the
\* needle's first search_idx words, the others are unmatched
UnmatchedWords == SubSeq(search_words_list, search_idx + 1,
                         Len(search_words_list))

\* the missing words of the reported context, None read as the empty list
ReportedMissingWords ==
    IF context.missing_words = "None" THEN <<>> ELSE context.missing_words

\* C21: when the word-sequence stage succeeds the reported missing words
\* are the needle's words that were not matched, as many as the needle has
\* words beyond the found ones, and None is reported if and only if every
\* word of the needle was matched, repeated words included.
C21_MissingWordsAreUnmatched ==
    SequenceReported
        => /\ ReportedMissingWords = UnmatchedWords
           /\ Len(ReportedMissingWords)
                  = Len(search_words_list) - Len(found_sequence)
           /\ (context.missing_words = "None")
                  <=> (Len(found_sequence) = Len(search_words_list))

-----------------------------------------------------------------------------
(* Termination of the matcher's loop, checked under SpecLoopFair.          *)

\* an iteration of the loop: the loop is running before and after the step
LoopIteration == pc = "matcher" /\ pc' = "matcher"

\* the loop has been left: its condition (line 399) is false
LoopExited ==
    ~MatcherRunning(MatcherLocals, search_words_list, page_words_list)

\* C22: the matcher's loop terminates.  Every iteration advances the
\* haystack cursor by exactly one, whether the words match or not and
\* whether the match restarts or not; the cursor starts at 0 and never
\* passes the number of haystack tokens, so the loop is left after at most
\* that many iterations; and when it is left the needle cursor is at the
\* number of needle tokens or the haystack cursor at the number of haystack
\* tokens.
C22_LoopTerminates ==
    /\ [][LoopIteration => page_idx' = page_idx + 1]_vars
    /\ [](page_idx \in 0..Len(page_words_list))
    /\ [](LoopExited => \/ search_idx = Len(search_words_list)
                        \/ page_idx = Len(page_words_list))
    /\ <>LoopExited

\* the loop has been left at the end of a haystack of four tokens or more
\* with needle words still unmatched, after a restart: the haystack's first
\* word matched the needle's and nothing of the match is left
C22_Witness ==
    /\ LoopExited
    /\ pc = "level1_end"
    /\ page_idx = Len(page_words_list)
    /\ Len(page_words_list) >= 4
    /\ search_idx < Len(search_words_list)
    /\ page_words_list[1] = search_words_list[1]
    /\ found_sequence = <<>>

-----------------------------------------------------------------------------
(* The counters of process_excel_file, checked under SpecExcel.            *)

\* the row loop of a sheet is in progress
InRowLoop == pc_excel \in {"row", "lookup"}

\* the rows of the sheet in progress that have been processed: idx is the
\* row in progress during a lookup and the last row processed otherwise
RowsProcessed == IF pc_excel = "lookup" THEN idx - 1 ELSE idx

\* the rows counted in the sheet in progress
RowsCounted == found_count + not_found_count + error_count

\* the rows of the sheet are exhausted: the sheet's statistics follow
AtSheetEnd == pc_excel = "row" /\ idx = df.rows

\* a step that takes a row with an empty text or an empty link
EmptyRowTaken ==
    /\ pc_excel = "row"
    /\ idx' = idx + 1
    /\ isna(row_text') \/ isna(row_link')

\* a step that increments exactly one of the three counters, by one
OneCounterIncremented ==
    \/ /\ found_count' = found_count + 1
       /\ UNCHANGED <<not_found_count, error_count>>
    \/ /\ not_found_count' = not_found_count + 1
       /\ UNCHANGED <<found_count, error_count>>
    \/ /\ error_count' = error_count + 1
       /\ UNCHANGED <<found_count, not_found_count>>

\* a step that ends the processing of a row
RowProcessed == InRowLoop /\ InRowLoop' /\ RowsProcessed' = RowsProcessed + 1

\* the found_count of the sheets processed so far, the one in progress
\* included
FoundSoFar ==
    IF InRowLoop THEN found_count_all + found_count ELSE found_count_all

\* C23: in process_excel_file every row processed increments exactly one of
\* found_count, not_found_count and error_count, so their sum is the number
\* of rows of the sheet processed so far, and total_rows when the rows of
\* the sheet are exhausted; a row with an empty text or link is counted as
\* an error and no lookup is made for it; and found_matches has as many
\* entries as found_count adds up to over the sheets, found_count_all once
\* the function has returned.
C23_EveryRowCountedOnce ==
    /\ [][RowProcessed => OneCounterIncremented]_vars
    /\ [](InRowLoop => RowsCounted = RowsProcessed)
    /\ [](AtSheetEnd => RowsCounted = total_rows)
    /\ [][EmptyRowTaken => /\ error_count' = error_count + 1
                           /\ UNCHANGED <<found_count, not_found_count,
                                          found_matches>>
                           /\ pc' = "None"
                           /\ pc_excel' = "row"]_vars
    /\ [](Len(found_matches) = FoundSoFar)
    /\ [](pc_excel = "returned" => Len(found_matches) = found_count_all)

\* the function has returned after two sheets of four rows in all: an empty
\* one, the last, counted as an error, one not found, and two found with
\* different texts
C23_Witness ==
    /\ pc_excel = "returned"
    /\ sheet_name = 2
    /\ total_rows_all = 4
    /\ error_count_all = 1
    /\ not_found_count_all = 1
    /\ found_count_all = 2
    /\ Len(found_matches) = 2
    /\ found_matches[1] # found_matches[2]
    /\ isna(row_text) \/ isna(row_link)

=============================================================================
